---- MODULE Spec2Model ----
(***************************************************************************)
(* Portfolio Crypto API (api/index.py): the three aggregation endpoints    *)
(* /api/portfolio, /api/market-data and /api/asset/{code} over the Swyftx  *)
(* client, as a state machine.  One request is in progress at a time; the  *)
(* brokerage answers each outbound call with a payload or with a failure.  *)
(*                                                                         *)
(* Python dicts are functions; d.get(k, default) is Get.  Asset codes are  *)
(* sequences of characters so that str.upper() is computed, not assumed.   *)
(* Quantities and prices are integers; secondary-currency amounts are kept *)
(* in units of 1/UsdDen so that the factor 0.65 is exact.                  *)
(***************************************************************************)
EXTENDS Integers, Sequences, FiniteSets, TLC

VARIABLES pc, endpoint, reqCode, issued, recv, data, exc, response, now, lastOk,
          prev

vars == <<pc, endpoint, reqCode, issued, recv, data, exc, response, now, lastOk, prev>>

(***************************************************************************)
(* Bounds of the model.                                                    *)
(***************************************************************************)
\* Lengths of the brokerage's lists in Spec, where every endpoint and the
\* clock are modelled.
ApiBalances == 1
ApiAssets == 2
ApiRates == 1
\* Lengths of the brokerage's lists in SpecValuation, where one portfolio
\* request is valued.
MaxBalances == 2
MaxAssets == 1
MaxRates == 1
\* Lengths of the brokerage's lists in SpecRepeat, where successive portfolio
\* requests are compared.
RepeatLen == 1
\* The clock: it advances TickSeconds at a time, up to MaxTicks times.
MaxTicks == 1
TickSeconds == 30

(***************************************************************************)
(* Program constants.                                                      *)
(***************************************************************************)
UsdNum == 65
UsdDen == 100
MarketTop == 50
InternalError == 500
NotFound == 404
OK == 200

\* The time-to-live window the specification gives the result cache.
CacheTTL == 60

(***************************************************************************)
(* Upstream payloads.                                                      *)
(***************************************************************************)
SeqsUpTo(S, n) == UNION {[1..k -> S] : k \in 0..n}

AssetIds == {1, 2}

BalanceEntries ==
    [asset_id : AssetIds, balance : {0, 1, 2}, available_balance : {0}]
      \cup [asset_id : {1}, balance : {0, 2}, available_balance : {1}]

RateEntries ==
    { [asset |-> 1, bid |-> 1],
      [asset |-> 2, bid |-> 2],
      [asset |-> 1, bid |-> 2, bid_usd |-> 1],
      [asset |-> 2, bid |-> 1, bid_usd |-> 1],
      [asset |-> 1, bid |-> 2, change_24h |-> 5, volume_24h |-> 7] }

BTC == <<"B", "T", "C">>
Btc == <<"b", "t", "c">>
Sol == <<"s", "o", "l">>
Ada == <<"A", "d", "a">>
UNKNOWN == <<"U", "N", "K", "N", "O", "W", "N">>

AssetEntries ==
    { [id |-> 1, code |-> Btc, name |-> "Bitcoin"],
      [id |-> 2, code |-> BTC, name |-> "Bitcoin2", type |-> "crypto"],
      [id |-> 2, code |-> Sol, name |-> "Solana"] }

SOL == <<"S", "O", "L">>

ReqCodes == {BTC, Btc, SOL, Ada}

\* Statuses on which response.raise_for_status() raises HTTPStatusError.
Statuses == {401, 500}

\* The state of an outbound call.  A call fails with an HTTP status or with
\* an error that is none (connection error, timeout).
NotCalled == [st |-> "none", status |-> 0]
Pending == [st |-> "pending", status |-> 0]
Returned == [st |-> "ok", status |-> 0]
HttpFailure(s) == [st |-> "http", status |-> s]
NetFailure == [st |-> "net", status |-> 0]
Failures == {HttpFailure(s) : s \in Statuses} \cup {NetFailure}

Calls == {"balances", "assets", "rates"}

Payloads(c) ==
    CASE c = "balances" -> SeqsUpTo(BalanceEntries, ApiBalances)
      [] c = "assets"   -> SeqsUpTo(AssetEntries, ApiAssets)
      [] c = "rates"    -> SeqsUpTo(RateEntries, ApiRates)

ValuationPayloads(c) ==
    CASE c = "balances" -> SeqsUpTo(BalanceEntries, MaxBalances)
      [] c = "assets"   -> SeqsUpTo(AssetEntries, MaxAssets)
      [] c = "rates"    -> SeqsUpTo(RateEntries, MaxRates)

\* The brokerage's data in SpecRepeat: one asset, held or not, priced or not.
RepeatPayloads(c) ==
    CASE c = "balances" ->
            SeqsUpTo({e \in BalanceEntries : e.asset_id = 1 /\ e.balance = 2}, RepeatLen)
      [] c = "assets" ->
            SeqsUpTo({a \in AssetEntries : a.id = 1}, RepeatLen)
      [] c = "rates" ->
            SeqsUpTo({r \in RateEntries : r.asset = 1 /\ DOMAIN r = {"asset", "bid"}},
                     RepeatLen)

(***************************************************************************)
(* Python helpers.                                                         *)
(***************************************************************************)
EmptyDict == <<>>

Get(d, k, default) == IF k \in DOMAIN d THEN d[k] ELSE default

\* str.upper() on ASCII: every lower-case letter goes to its upper-case
\* letter, any other character to itself.
LowerLetters ==
    << "a", "b", "c", "d", "e", "f", "g", "h", "i", "j", "k", "l", "m",
       "n", "o", "p", "q", "r", "s", "t", "u", "v", "w", "x", "y", "z" >>

UpperLetters ==
    << "A", "B", "C", "D", "E", "F", "G", "H", "I", "J", "K", "L", "M",
       "N", "O", "P", "Q", "R", "S", "T", "U", "V", "W", "X", "Y", "Z" >>

UpperChar(ch) ==
    IF \E i \in DOMAIN LowerLetters : LowerLetters[i] = ch
    THEN UpperLetters[CHOOSE i \in DOMAIN LowerLetters : LowerLetters[i] = ch]
    ELSE ch

Upper(s) == [i \in DOMAIN s |-> UpperChar(s[i])]

\* {e[key]: e for e in list}: a later entry replaces an earlier one.
DictBy(list, key) ==
    [k \in {list[i][key] : i \in DOMAIN list} |->
        list[CHOOSE i \in DOMAIN list :
                /\ list[i][key] = k
                /\ \A j \in DOMAIN list : list[j][key] = k => j <= i]]

\* list.sort(key=..., reverse=True): descending, equal keys keep their order.
InsertUnstable(sorted, x, key) ==
    LET before == {i \in DOMAIN sorted : sorted[i][key] > x[key]}
        n == Cardinality(before)
    IN  SubSeq(sorted, 1, n) \o <<x>> \o SubSeq(sorted, n + 1, Len(sorted))

InsertDesc(sorted, x, key) ==
    LET before == {i \in DOMAIN sorted : sorted[i][key] >= x[key]}
        n == Cardinality(before)
    IN  SubSeq(sorted, 1, n) \o <<x>> \o SubSeq(sorted, n + 1, Len(sorted))

RECURSIVE SortDesc(_, _)
SortDesc(list, key) ==
    IF list = <<>> THEN <<>>
    ELSE InsertDesc(SortDesc(SubSeq(list, 1, Len(list) - 1), key),
                    list[Len(list)], key)

(***************************************************************************)
(* get_portfolio: the aggregation loop.                                    *)
(***************************************************************************)
SkipBalanceMut(balance) == Get(balance, "balance", 0) < 0

SkipBalance(balance) == Get(balance, "balance", 0) <= 0

LastPriceMut(rate_info) == Get(rate_info, "bid", 1)

LastPrice(rate_info) == Get(rate_info, "bid", 0)

\* The per-unit secondary-currency rate, in units of 1/UsdDen.
UsdRateMut(rate_info, last_price) == last_price * UsdNum

UsdRate(rate_info, last_price) ==
    IF "bid_usd" \in DOMAIN rate_info
    THEN rate_info["bid_usd"] * UsdDen
    ELSE last_price * UsdNum

AssetBalance(balance, asset_info, rate_info) ==
    LET balance_qty == Get(balance, "balance", 0)
        last_price  == LastPrice(rate_info)
        base == [asset_id |-> balance["asset_id"],
                 code |-> Get(asset_info, "code", UNKNOWN),
                 name |-> Get(asset_info, "name", "Unknown Asset"),
                 balance |-> balance_qty,
                 available_balance |-> Get(balance, "available_balance", 0),
                 usd_value |-> balance_qty * UsdRate(rate_info, last_price),
                 aud_value |-> balance_qty * last_price,
                 last_price |-> last_price]
    IN  IF "change_24h" \in DOMAIN rate_info
        THEN [f \in DOMAIN base \cup {"change_24h"} |->
                 IF f = "change_24h" THEN rate_info["change_24h"] ELSE base[f]]
        ELSE base

AddTotalsMut(acc, item) ==
    [acc EXCEPT !.assets = Append(@, item),
                !.total_aud = @ + item.usd_value,
                !.total_usd = @ + item.usd_value]

AddTotals(acc, item) ==
    [acc EXCEPT !.assets = Append(@, item),
                !.total_aud = @ + item.aud_value,
                !.total_usd = @ + item.usd_value]

RECURSIVE PortfolioLoop(_, _, _, _)
PortfolioLoop(balances, i, dicts, acc) ==
    IF i > Len(balances) THEN acc
    ELSE LET balance == balances[i]
             asset_id == balance["asset_id"]
             asset_info == Get(dicts.assets, asset_id, EmptyDict)
             rate_info == Get(dicts.rates, asset_id, EmptyDict)
         IN  IF SkipBalance(balance)
             THEN PortfolioLoop(balances, i + 1, dicts, acc)
             ELSE PortfolioLoop(balances, i + 1, dicts,
                     AddTotals(acc, AssetBalance(balance, asset_info, rate_info)))

PortfolioSummary(balances, assets, rates, t) ==
    LET dicts == [assets |-> DictBy(assets, "id"), rates |-> DictBy(rates, "asset")]
        acc == PortfolioLoop(balances, 1, dicts,
                  [assets |-> <<>>, total_aud |-> 0, total_usd |-> 0])
    IN  [total_aud_value |-> acc.total_aud,
         total_usd_value |-> acc.total_usd,
         assets |-> SortDesc(acc.assets, "aud_value"),
         last_updated |-> t]

(***************************************************************************)
(* get_market_data.                                                        *)
(***************************************************************************)
\* A dict literal whose values come from src.get(k): a key whose value would
\* be None is left out of the function.
Present(src, renames) ==
    [k \in {r[1] : r \in {q \in renames : q[2] \in DOMAIN src}} |->
        src[(CHOOSE q \in renames : q[1] = k)[2]]]

Merge(f, g) ==
    [k \in DOMAIN f \cup DOMAIN g |-> IF k \in DOMAIN f THEN f[k] ELSE g[k]]

MarketData(rate, asset_info) ==
    Merge([asset_id |-> rate["asset"],
           code |-> Get(asset_info, "code", UNKNOWN),
           name |-> Get(asset_info, "name", "Unknown"),
           last_price |-> Get(rate, "bid", 0),
           change_24h |-> Get(rate, "change_24h", 0),
           volume_24h |-> Get(rate, "volume_24h", 0)],
          Present(rate, {<<"change_7d", "change_7d">>}))

MarketList(assets, rates) ==
    LET assets_dict == DictBy(assets, "id")
        market_data == [i \in DOMAIN rates |->
            MarketData(rates[i], Get(assets_dict, rates[i]["asset"], EmptyDict))]
        sorted == SortDesc(market_data, "volume_24h")
    IN  SubSeq(sorted, 1, IF Len(sorted) < MarketTop THEN Len(sorted) ELSE MarketTop)

(***************************************************************************)
(* get_asset_details.                                                      *)
(***************************************************************************)
CodeMatchesMut(a, asset_code) == a["code"] = asset_code

CodeMatches(a, asset_code) == Upper(a["code"]) = Upper(asset_code)

\* next((x for x in list if P(x)), default) with the indices that satisfy P.
FirstOf(list, idx, default) ==
    IF idx = {} THEN default
    ELSE list[CHOOSE i \in idx : \A j \in idx : i <= j]

Matching(assets, asset_code) ==
    {i \in DOMAIN assets : CodeMatches(assets[i], asset_code)}

AssetDetails(asset, rates) ==
    LET rate == FirstOf(rates, {i \in DOMAIN rates : rates[i]["asset"] = asset["id"]},
                        EmptyDict)
    IN  Merge([asset_id |-> asset["id"], code |-> asset["code"], name |-> asset["name"]],
          Merge(Present(asset, {<<"type", "type">>}),
                Present(rate, {<<"current_price_aud", "bid">>,
                               <<"current_price_usd", "bid_usd">>,
                               <<"change_24h", "change_24h">>,
                               <<"change_7d", "change_7d">>,
                               <<"high_24h", "high_24h">>,
                               <<"low_24h", "low_24h">>,
                               <<"volume_24h", "volume_24h">>})))

(***************************************************************************)
(* The except clauses of the three handlers: exception -> response status. *)
(***************************************************************************)
HTTPStatusError(s) == [kind |-> "HTTPStatusError", status |-> s]
HTTPException(s) == [kind |-> "HTTPException", status |-> s]
OtherError == [kind |-> "Exception", status |-> 0]
\* No exception has been raised in the handler's calls.
NoExc == [kind |-> "none", status |-> 0]

\* What a failed upstream call raises inside the handler.
Raised(outcome) ==
    IF outcome.st = "http" THEN HTTPStatusError(outcome.status) ELSE OtherError

PortfolioExcept(e) ==
    IF e.kind = "HTTPStatusError" THEN e.status ELSE InternalError

MarketExcept(e) == InternalError

AssetExceptMut(e) == InternalError

AssetExcept(e) ==
    IF e.kind = "HTTPException" THEN e.status ELSE InternalError

ErrorResponse(ep, e) ==
    [status |-> CASE ep = "portfolio" -> PortfolioExcept(e)
                  [] ep = "market"    -> MarketExcept(e)
                  [] ep = "asset"     -> AssetExcept(e),
     body |-> "error"]

(***************************************************************************)
(* The outbound calls of each handler.                                     *)
(***************************************************************************)
Fresh == lastOk >= 0 /\ now >= lastOk /\ (now - lastOk) * TickSeconds < CacheTTL

\* A handler that answered from a fresh cache entry would make no call.
FirstCallsCached(ep) ==
    CASE ep = "portfolio" -> IF Fresh THEN {} ELSE {"balances", "assets", "rates"}
      [] ep = "market"    -> {"assets", "rates"}
      [] ep = "asset"     -> {"assets"}

\* A handler that waited for the balances before asking for the rates.
FirstCallsSequential(ep) ==
    CASE ep = "portfolio" -> {"balances", "assets"}
      [] ep = "market"    -> {"assets", "rates"}
      [] ep = "asset"     -> {"assets"}

\* The calls a handler has started when it first suspends.
FirstCalls(ep) ==
    CASE ep = "portfolio" -> {"balances", "assets", "rates"}
      [] ep = "market"    -> {"assets", "rates"}
      [] ep = "asset"     -> {"assets"}

\* A handler that asked again after an answer.
NextCallsAgain(ep, c) ==
    IF ep = "asset" /\ c = "assets" THEN {"assets", "rates"} ELSE {}

\* The calls a handler starts when call c has returned.
NextCalls(ep, c) ==
    IF ep = "asset" /\ c = "assets" THEN {"rates"} ELSE {}

\* The handlers that wait for their calls in asyncio.gather: a call's answer
\* and the handler's resumption are separate steps of the event loop.  The
\* plain awaits of get_asset_details resume the handler with the answer.
Gathers(ep) == ep \in {"portfolio", "market"}

\* All the calls a handler makes on its successful path.
AllCalls(ep) ==
    CASE ep = "portfolio" -> {"balances", "assets", "rates"}
      [] ep = "market"    -> {"assets", "rates"}
      [] ep = "asset"     -> {"assets", "rates"}

Issue(iss, cs) == [c \in Calls |-> IF c \in cs THEN iss[c] + 1 ELSE iss[c]]

\* The handler's result once every call has returned.
Success(ep, code, d, t) ==
    CASE ep = "portfolio" ->
            [status |-> OK,
             body |-> PortfolioSummary(d["balances"], d["assets"], d["rates"], t)]
      [] ep = "market" ->
            [status |-> OK, body |-> MarketList(d["assets"], d["rates"])]
      [] ep = "asset" ->
            LET m == Matching(d["assets"], code)
            IN  IF m = {}
                THEN ErrorResponse(ep, HTTPException(NotFound))
                ELSE [status |-> OK,
                      body |-> AssetDetails(FirstOf(d["assets"], m, EmptyDict), d["rates"])]

(***************************************************************************)
(* State machine.                                                          *)
(***************************************************************************)
NoResponse == [status |-> 0, body |-> "none"]
NoCode == <<>>
\* History: the last successful portfolio request that has been finished,
\* with the time of its response, what the brokerage returned and its body.
NoPrev == [at |-> -1, data |-> [c \in Calls |-> <<>>], body |-> <<>>]

Init ==
    /\ pc = "idle"
    /\ endpoint = "none"
    /\ reqCode = NoCode
    /\ issued = [c \in Calls |-> 0]
    /\ recv = [c \in Calls |-> NotCalled]
    /\ data = [c \in Calls |-> <<>>]
    /\ exc = NoExc
    /\ response = NoResponse
    /\ now = 0
    /\ lastOk = -1
    /\ prev = NoPrev

Begin(ep, code) ==
    /\ pc = "idle"
    /\ pc' = "running"
    /\ endpoint' = ep
    /\ reqCode' = code
    /\ issued' = Issue([c \in Calls |-> 0], FirstCalls(ep))
    /\ recv' = [c \in Calls |-> IF c \in FirstCalls(ep) THEN Pending ELSE NotCalled]
    /\ data' = [c \in Calls |-> <<>>]
    /\ exc' = NoExc
    /\ response' = NoResponse
    /\ UNCHANGED <<now, lastOk, prev>>

GetPortfolio == Begin("portfolio", NoCode)

GetMarketData == Begin("market", NoCode)

GetAssetDetails == \E code \in ReqCodes : Begin("asset", code)

\* The brokerage answers call c with a payload.
Receive(c, payload) ==
        /\ pc = "running"
        /\ exc = NoExc
        /\ recv[c] = Pending
        /\ LET recv1 == [recv EXCEPT ![c] = Returned]
               data1 == [data EXCEPT ![c] = payload]
               more == NextCalls(endpoint, c)
               complete == /\ ~Gathers(endpoint)
                           /\ more = {}
                           /\ \A k \in AllCalls(endpoint) : recv1[k] = Returned
           IN  /\ data' = data1
               /\ issued' = Issue(issued, more)
               /\ recv' = [k \in Calls |-> IF k \in more THEN Pending ELSE recv1[k]]
               /\ IF complete
                  THEN /\ response' = Success(endpoint, reqCode, data1, now)
                       /\ pc' = "done"
                  ELSE UNCHANGED <<response, pc>>
        /\ UNCHANGED <<endpoint, reqCode, exc, now, lastOk, prev>>

UpstreamOk == \E c \in Calls : \E payload \in Payloads(c) : Receive(c, payload)

UpstreamOkValuation ==
    \E c \in Calls : \E payload \in ValuationPayloads(c) : Receive(c, payload)

UpstreamOkRepeat ==
    \E c \in Calls : \E payload \in RepeatPayloads(c) : Receive(c, payload)

\* The brokerage fails call c, the first of the request to fail.  An awaited
\* call raises in the handler, which ends in its except clause; a gathered
\* call hands its exception to gather, and the handler is resumed with it
\* later.  The calls gathered with c stay outstanding.
UpstreamFail ==
    \E c \in Calls : \E outcome \in Failures :
        /\ pc = "running"
        /\ exc = NoExc
        /\ recv[c] = Pending
        /\ recv' = [recv EXCEPT ![c] = outcome]
        /\ exc' = Raised(outcome)
        /\ IF Gathers(endpoint)
           THEN UNCHANGED <<response, pc>>
           ELSE /\ response' = ErrorResponse(endpoint, Raised(outcome))
                /\ pc' = "done"
        /\ UNCHANGED <<endpoint, reqCode, issued, data, now, lastOk, prev>>

\* The handler resumes from asyncio.gather: with the first exception raised
\* by one of its calls, or with their results once all have returned.  It
\* then runs to its response without suspending.
Resume ==
    /\ pc = "running"
    /\ Gathers(endpoint)
    /\ exc # NoExc \/ \A k \in AllCalls(endpoint) : recv[k] = Returned
    /\ response' = IF exc # NoExc
                   THEN ErrorResponse(endpoint, exc)
                   ELSE Success(endpoint, reqCode, data, now)
    /\ pc' = "done"
    /\ lastOk' = IF endpoint = "portfolio" /\ exc = NoExc THEN now ELSE lastOk
    /\ UNCHANGED <<endpoint, reqCode, issued, recv, data, exc, now, prev>>

\* asyncio.gather does not cancel the other calls when one has raised: a call
\* still outstanding once a call has failed (before or after the handler has
\* been resumed) is answered all the same, with a payload nobody reads or
\* with a failure nobody handles.
LateAnswer ==
    \E c \in Calls : \E outcome \in {Returned} \cup Failures :
        /\ exc # NoExc
        /\ recv[c] = Pending
        /\ recv' = [recv EXCEPT ![c] = outcome]
        /\ UNCHANGED <<pc, endpoint, reqCode, issued, data, exc, response, now,
                       lastOk, prev>>

\* The response has been sent; the next request may arrive.
Reset ==
    /\ pc = "done"
    /\ pc' = "idle"
    /\ endpoint' = "none"
    /\ reqCode' = NoCode
    /\ issued' = [c \in Calls |-> 0]
    /\ recv' = [c \in Calls |-> NotCalled]
    /\ data' = [c \in Calls |-> <<>>]
    /\ exc' = NoExc
    /\ response' = NoResponse
    /\ UNCHANGED <<now, lastOk>>

Finish == Reset /\ UNCHANGED prev

\* The same, keeping a successful portfolio request in the history.
FinishRemember ==
    /\ Reset
    /\ prev' = IF endpoint = "portfolio" /\ response.status = OK
               THEN [at |-> response.body.last_updated, data |-> data,
                     body |-> response.body]
               ELSE prev

\* Time passes, whatever the handlers are doing.
Tick ==
    /\ now < MaxTicks
    /\ now' = now + 1
    /\ UNCHANGED <<pc, endpoint, reqCode, issued, recv, data, exc, response, lastOk,
                   prev>>

Next ==
    \/ GetPortfolio
    \/ GetMarketData
    \/ GetAssetDetails
    \/ UpstreamOk
    \/ UpstreamFail
    \/ Resume
    \/ LateAnswer
    \/ Finish
    \/ Tick

Spec == Init /\ [][Next]_vars

\* One portfolio request over longer lists.
NextValuation ==
    \/ GetPortfolio
    \/ UpstreamOkValuation
    \/ UpstreamFail
    \/ Resume
    \/ LateAnswer

SpecValuation == Init /\ [][NextValuation]_vars

\* Successive portfolio requests, each compared with the one before it.
NextRepeat ==
    \/ GetPortfolio
    \/ UpstreamOkRepeat
    \/ UpstreamFail
    \/ Resume
    \/ LateAnswer
    \/ FinishRemember
    \/ Tick

SpecRepeat == Init /\ [][NextRepeat]_vars

(***************************************************************************)
(* Properties.                                                             *)
(***************************************************************************)
PortfolioOk == endpoint = "portfolio" /\ pc = "done" /\ response.status = OK

Items == response.body.assets

Balances == data["balances"]

Rates == data["rates"]

RatedIds == {Rates[j]["asset"] : j \in DOMAIN Rates}

\* The item is the line of balance entry e.
LineOf(item, e) ==
    /\ item.asset_id = e["asset_id"]
    /\ item.balance = e["balance"]
    /\ item.available_balance = e["available_balance"]

RECURSIVE SumOf(_, _)
SumOf(list, key) ==
    IF list = <<>> THEN 0 ELSE list[1][key] + SumOf(Tail(list), key)

\* The portfolio data of a response body: all of it but the time stamp.
DataOf(body) ==
    [total_aud_value |-> body.total_aud_value,
     total_usd_value |-> body.total_usd_value,
     assets |-> body.assets]

\* The time t lies within the TTL window that opened at time t0.
WithinTTL(t0, t) == t0 >= 0 /\ t >= t0 /\ (t - t0) * TickSeconds < CacheTTL

\* C1 (as claimed): a portfolio request made within the TTL window of an
\* earlier successful one makes no upstream call and returns the portfolio
\* data of that earlier response.
C1_NoCallWithinTTL ==
    /\ (endpoint = "portfolio" /\ pc = "running" /\ WithinTTL(lastOk, now))
          => \A c \in Calls : issued[c] = 0
    /\ (PortfolioOk /\ WithinTTL(prev.at, now))
          => DataOf(response.body) = DataOf(prev.body)

\* C1 (amended): every portfolio request, one within the TTL window of an
\* earlier successful one included, makes each of the three upstream calls
\* exactly once; a successful response is composed from what those calls
\* returned in that request (one line per held balance entry, priced from
\* that request's rates), so it repeats the earlier portfolio data whenever
\* the brokerage returned the same data as before.
C1_EveryRequestFetches ==
    /\ (endpoint = "portfolio" /\ pc \in {"running", "done"})
          => \A c \in Calls : issued[c] = 1
    /\ PortfolioOk =>
          /\ \A c \in Calls : recv[c] = Returned
          /\ response.body.last_updated <= now
          /\ Len(Items) = Cardinality({i \in DOMAIN Balances : Balances[i]["balance"] > 0})
          /\ \A k \in DOMAIN Items :
                /\ \E i \in DOMAIN Balances : LineOf(Items[k], Balances[i])
                /\ Items[k].last_price # 0 =>
                      \E j \in DOMAIN Rates :
                          /\ Rates[j]["asset"] = Items[k].asset_id
                          /\ Rates[j]["bid"] = Items[k].last_price
          /\ (prev.at >= 0 /\ data = prev.data)
                => DataOf(response.body) = DataOf(prev.body)

\* A second request 30 seconds after the first, inside the window, has made
\* the three calls and answers with other data, the brokerage's having changed.
C1_Witness ==
    /\ PortfolioOk
    /\ WithinTTL(prev.at, now) /\ now > prev.at
    /\ \A c \in Calls : issued[c] = 1
    /\ data # prev.data
    /\ DataOf(response.body) # DataOf(prev.body)
    /\ prev.body.assets # <<>>

\* C2 (as claimed): no balance entry whose available_balance is <= 0 has a
\* line in the portfolio response.
C2_NoUnavailableEntry ==
    PortfolioOk =>
        \A i \in DOMAIN Balances :
            Balances[i]["available_balance"] <= 0
                => ~ \E k \in DOMAIN Items : LineOf(Items[k], Balances[i])

\* C2 (amended): no balance entry whose balance is <= 0 has a line in the
\* portfolio response, whatever its available_balance; every entry whose
\* balance is > 0 has one.
C2_NoNonPositiveBalance ==
    PortfolioOk =>
        /\ \A k \in DOMAIN Items : Items[k].balance > 0
        /\ \A i \in DOMAIN Balances :
              (Balances[i]["balance"] <= 0)
                  <=> ~ \E k \in DOMAIN Items : LineOf(Items[k], Balances[i])
        /\ Len(Items) = Cardinality({i \in DOMAIN Balances : Balances[i]["balance"] > 0})

C2_Witness ==
    /\ PortfolioOk
    /\ Len(Items) = 1
    /\ \E i \in DOMAIN Balances :
          Balances[i]["balance"] = 0 /\ Balances[i]["available_balance"] > 0

\* C3 (as claimed): a held asset whose id is absent from the rates has no
\* line in the portfolio response, and no line is valued at price 0.
C3_NoUnpricedLine ==
    PortfolioOk =>
        /\ \A k \in DOMAIN Items : Items[k].asset_id \in RatedIds
        /\ \A k \in DOMAIN Items : Items[k].last_price # 0

\* C3 (amended): a held asset (balance > 0) whose id is absent from the rates
\* does have a line in the portfolio response, with last_price, aud_value
\* and usd_value all 0.
C3_UnpricedLineIsZero ==
    PortfolioOk =>
        /\ \A i \in DOMAIN Balances :
              (Balances[i]["balance"] > 0 /\ Balances[i]["asset_id"] \notin RatedIds)
                  => \E k \in DOMAIN Items : LineOf(Items[k], Balances[i])
        /\ \A k \in DOMAIN Items :
              Items[k].asset_id \notin RatedIds
                  => /\ Items[k].last_price = 0
                     /\ Items[k].aud_value = 0
                     /\ Items[k].usd_value = 0

C3_Witness ==
    /\ PortfolioOk
    /\ \E k \in DOMAIN Items : Items[k].asset_id \notin RatedIds
    /\ \E k \in DOMAIN Items : Items[k].asset_id \in RatedIds

\* C4: total_aud_value is the sum of aud_value over the lines of assets, each
\* aud_value being balance times last_price; an empty balance list gives
\* total 0 and no line.
C4_TotalIsSum ==
    PortfolioOk =>
        /\ response.body.total_aud_value = SumOf(Items, "aud_value")
        /\ \A k \in DOMAIN Items :
              Items[k].aud_value = Items[k].balance * Items[k].last_price
        /\ Balances = <<>> =>
              (response.body.total_aud_value = 0 /\ Items = <<>>)

C4_Witness ==
    /\ PortfolioOk
    /\ Len(Items) = 2
    /\ Items[1].aud_value > Items[2].aud_value
    /\ Items[2].aud_value > 0
    /\ \E k \in DOMAIN Items : Items[k].usd_value # Items[k].aud_value

\* C5: the lines are in descending order of aud_value, and lines of equal
\* aud_value are in the order of their balance entries.
C5_SortedStable ==
    PortfolioOk =>
        LET held == {i \in DOMAIN Balances : Balances[i]["balance"] > 0}
        IN  /\ \A k \in 1..(Len(Items) - 1) : Items[k].aud_value >= Items[k + 1].aud_value
            /\ \E p \in [DOMAIN Items -> held] :
                  /\ \A k, l \in DOMAIN Items : k # l => p[k] # p[l]
                  /\ \A k \in DOMAIN Items : LineOf(Items[k], Balances[p[k]])
                  /\ \A k, l \in DOMAIN Items :
                        (k < l /\ Items[k].aud_value = Items[l].aud_value)
                            => p[k] < p[l]

C5_Witness ==
    /\ PortfolioOk
    /\ Len(Items) = 2
    /\ Items[1].aud_value = Items[2].aud_value
    /\ Items[1].aud_value > 0
    /\ Items[1] # Items[2]

\* C10 (as claimed): usd_value is aud_value times one fixed constant for
\* every line, and total_usd_value is total_aud_value times that constant.
\* (Secondary-currency amounts are in units of 1/UsdDen.)
C10_FixedConversion ==
    PortfolioOk =>
        /\ \A k \in DOMAIN Items : Items[k].usd_value = Items[k].aud_value * UsdNum
        /\ response.body.total_usd_value = response.body.total_aud_value * UsdNum

\* C10 (amended): usd_value is balance times the bid_usd of the asset's rate
\* when that rate carries a bid_usd, and aud_value times the fixed constant
\* 0.65 otherwise; total_usd_value is the sum of usd_value over the lines.
C10_UsdFromRateOrFallback ==
    PortfolioOk =>
        /\ \A k \in DOMAIN Items :
              LET js == {j \in DOMAIN Rates : Rates[j]["asset"] = Items[k].asset_id}
                  last == CHOOSE j \in js : \A m \in js : m <= j
              IN  IF js # {} /\ "bid_usd" \in DOMAIN Rates[last]
                  THEN Items[k].usd_value = Items[k].balance * Rates[last]["bid_usd"] * UsdDen
                  ELSE Items[k].usd_value = Items[k].aud_value * UsdNum
        /\ response.body.total_usd_value = SumOf(Items, "usd_value")

C10_Witness ==
    /\ PortfolioOk
    /\ Len(Items) = 2
    /\ \E k \in DOMAIN Items : Items[k].usd_value # Items[k].aud_value * UsdNum
    /\ response.body.total_usd_value > 0

Failed(c) == recv[c].st \in {"http", "net"}

\* C6 (as claimed): on each endpoint, when an outbound call fails with HTTP
\* status s and its failure ends the request, the response is an error
\* response of status s, never a success body.
C6_UpstreamStatusSurfaced ==
    /\ (\E c \in Calls : recv[c].st = "http") => response.status # OK
    /\ (pc = "done" /\ exc.kind = "HTTPStatusError")
          => response.status = exc.status

\* C7: with both upstream calls answered, /api/asset/{code} responds 404
\* exactly when no asset's code equals the requested code up to case; it
\* never turns that 404 into a 500; otherwise it describes the first asset
\* whose code matches.
C7_NotFoundIffNoMatch ==
    (endpoint = "asset" /\ pc = "done" /\ \A c \in {"assets", "rates"} : recv[c] = Returned)
        => LET assets == data["assets"]
               hits == {i \in DOMAIN assets : Upper(assets[i]["code"]) = Upper(reqCode)}
           IN  /\ response.status = NotFound <=> hits = {}
               /\ response.status \in {NotFound, OK}
               /\ hits # {} =>
                     \E i \in hits :
                         /\ \A j \in hits : i <= j
                         /\ response.body["asset_id"] = assets[i]["id"]
                         /\ response.body["code"] = assets[i]["code"]
                         /\ response.body["name"] = assets[i]["name"]

C7_Witness ==
    /\ endpoint = "asset" /\ pc = "done"
    /\ response.status = OK
    /\ Len(data["assets"]) = 2
    /\ response.body["asset_id"] = data["assets"][1]["id"]
    /\ data["assets"][1]["id"] # data["assets"][2]["id"]
    /\ data["assets"][1]["code"] # reqCode
    /\ Upper(data["assets"][2]["code"]) = Upper(reqCode)

C9_RatesAfterBalances ==
    endpoint = "portfolio" =>
        /\ issued["rates"] > 0 => recv["balances"] = Returned
        /\ PortfolioOk =>
              \A j \in DOMAIN Rates :
                  \E i \in DOMAIN Balances :
                      /\ Balances[i]["asset_id"] = Rates[j]["asset"]
                      /\ Balances[i]["balance"] > 0

\* C9 (amended): in a portfolio request the rates call is issued together
\* with the balances and assets calls, while the balance response is still
\* outstanding, and the response is composed only when all three calls have
\* returned.
C9_RatesWithBalances ==
    endpoint = "portfolio" =>
        /\ recv["balances"] = Pending => issued["rates"] = 1
        /\ recv["balances"] # NotCalled /\ recv["rates"] # NotCalled
        /\ response.status = OK => \A c \in Calls : recv[c] = Returned

C9_Witness ==
    /\ endpoint = "portfolio" /\ pc = "running"
    /\ recv["balances"] = Pending
    /\ recv["rates"] = Returned
    /\ data["rates"] # <<>>

====
